---- MODULE Spec2Model ----
(***************************************************************************)
(* Blocking SPI driver of stm32-hal (src/src/spi/h.rs): the word-level     *)
(* primitives send / exchange_duplex / read_duplex, the buffer operations  *)
(* write / transfer built on them, and the disable procedure.  Every       *)
(* register access of the driver is one step; the peripheral is the        *)
(* environment (an echoing test double that may stall or latch a fault).   *)
(***************************************************************************)
EXTENDS Integers, Sequences, FiniteSets, TLC

\* ------------------------------------------------------------- bounds
MaxLen == 5         \* longest caller buffer
MAX_ITERS == 1      \* crate::MAX_ITERS, scaled down
RxFifoCap == 5      \* capacity of the peripheral's receive FIFO

\* ---------------------------------------------------------- constants
FIFO_WORDS == 4

Min(a, b) == IF a < b THEN a ELSE b

\* The byte values callers pass.
Words == {0, 255}

\* BaudRate as u8: the divider codes of the 3-bit MBR field used here
\* (Div2, Div4, Div256), and the one the bus is constructed with.
Div2 == 0
Div4 == 1
Div256 == 7
BaudRates == {Div2, Div4, Div256}
DefaultBaud == Div4

\* Caller buffers: every length 0..MaxLen, all words 0 but at most one 255,
\* which tells the positions of a buffer apart.
Marked(n, k) == [i \in 1..n |-> IF i = k THEN 255 ELSE 0]
Buffers == {Marked(n, k) : n \in 0..MaxLen, k \in 0..MaxLen}

\* Fault flags of SPI_SR that check_errors! decodes, in priority order.
FaultFlags == <<"modf", "crce", "ovr", "udr", "tifre">>
FaultKind == [modf |-> "ModeFault", crce |-> "CrcError", ovr |-> "Overrun",
              udr |-> "Underrun", tifre |-> "TiFrameError"]
FaultKinds == {FaultKind[FaultFlags[k]] : k \in 1..Len(FaultFlags)}

VARIABLES
    \* driver
    op,        \* "idle", "write", "transfer", "disable", "read2", "write_one"
    phase,     \* "none", "prime", "exch", "drain"
    pc,        \* position inside the running primitive / procedure
    words,     \* the caller's buffer (transfer writes it in place)
    idx,       \* loop index of the running loop
    iters,     \* `i` of the running poll loop
    ret,       \* what the last call returned: "none", "Ok", an error kind, or
               \* "panic" for a call that panicked
    \* peripheral registers
    faults,    \* fault flags latched in SPI_SR
    txc, eot,  \* completion flags of SPI_SR
    rxfifo,    \* receive FIFO, oldest word first
    alive,     \* the peripheral still shifts words
    spe,       \* CR1.SPE
    cstart,    \* CR1.CSTART
    ier,       \* bits set in SPI_IER
    mbr,       \* SPI_CFG1.MBR, the baud-rate divider field
    \* core and power-control registers (low_power.rs)
    sleepdeep,   \* SCB.SCR.SLEEPDEEP
    sleeponexit, \* SCB.SCR.SLEEPONEXIT
    lpms,        \* PWR_CR1.LPMS
    scr,         \* last value written to PWR_SCR ("none": never written)
    clk,         \* system clock source selected in RCC
    lpop,        \* low-power function running or returned last
    lparg,       \* its `mode` argument (stop), else 0
    lpsrc,       \* its `input_src` argument
    lppc,        \* its position: "idle", a statement, "asleep", "done"
    lplog,       \* what it has done so far, in order
    entered,     \* the mode the core entered at its WFI
    \* history of the current / last call
    orig,      \* the buffer as passed in
    txlog,     \* words stored to TXDR, in order
    nLoads,    \* loads from RXDR
    polls,     \* reads of the awaited flag by the running primitive
    primRes,   \* result of the last primitive: "none", "Ok", "fault", "timeout"
    errSeen,   \* some primitive of this call returned an error
    lateCall,  \* a primitive was invoked after one had returned an error
    nPrims,    \* primitives invoked by this call
    timedOut,  \* some poll loop of this call ran out
    call,      \* the operation called last: "none", "write", "transfer", "disable"
    rx0,       \* fill of the receive FIFO when the call started
    preFault,  \* a fault flag was set when the call started
    spe0,      \* SPE when the call started
    wrote,     \* buffer positions (0-based) transfer has written, in order
    lost,      \* a word stored by this call was not answered by the peripheral
    seen       \* register accesses of the running primitive (of disable: of the
               \* call), in order; repeated polls of one flag count once

vars == <<op, phase, pc, words, idx, iters, ret, faults, txc, eot, rxfifo,
          alive, spe, cstart, ier, mbr, sleepdeep, sleeponexit, lpms, scr, clk, lpop,
          lparg, lpsrc, lppc, lplog, entered, orig, txlog, nLoads, polls, primRes, errSeen,
          lateCall, nPrims, timedOut, call, rx0, preFault, spe0, wrote, lost, seen>>

drv == <<op, phase, pc, words, idx, iters, ret>>
pwr == <<sleepdeep, sleeponexit, lpms, scr, clk, lpop, lparg, lpsrc, lppc, lplog,
         entered>>
hw == <<faults, txc, eot, rxfifo, alive, spe, cstart, ier, pwr, mbr>>
hist == <<orig, txlog, nLoads, polls, primRes, errSeen, lateCall, nPrims, timedOut,
          call, rx0, preFault, spe0, wrote, lost, seen>>

\* ------------------------------------------------------------ peripheral
\* The test double answers a transmitted word with its complement.
Echo(w) == 255 - w

\* A receive flag that is always up.
Rxp_always == TRUE

\* SPI_SR availability flags, from the receive FIFO fill (byte frames).
Rxp == rxfifo # <<>>
Dxp == rxfifo # <<>>
Rxwne == Len(rxfifo) >= 4
Rxplvl == Len(rxfifo) % 4

\* check_errors!(sr): the fault to return, or "none".
RECURSIVE FirstFault(_, _)
FirstFault(f, k) ==
    IF k > Len(FaultFlags) THEN "none"
    ELSE IF FaultFlags[k] \in f THEN FaultKind[FaultFlags[k]]
    ELSE FirstFault(f, k + 1)

check_errors(f) == FirstFault(f, 1)

Init ==
    /\ op = "idle" /\ phase = "none" /\ pc = "idle"
    /\ words = <<>> /\ idx = 0 /\ iters = 0 /\ ret = "none"
    /\ faults = {} /\ txc = TRUE /\ eot = FALSE /\ rxfifo = <<>>
    /\ alive = TRUE /\ spe = TRUE /\ cstart = FALSE /\ ier = {}
    /\ mbr = DefaultBaud
    /\ sleepdeep = FALSE /\ sleeponexit = FALSE /\ lpms = 0 /\ scr = "none"
    /\ clk = "Msi" /\ lpop = "none" /\ lparg = 0 /\ lpsrc = "Msi"
    /\ lppc = "idle" /\ lplog = <<>> /\ entered = "none"
    /\ orig = <<>> /\ txlog = <<>> /\ nLoads = 0 /\ polls = 0
    /\ primRes = "none" /\ errSeen = FALSE /\ lateCall = FALSE /\ nPrims = 0
    /\ timedOut = FALSE /\ call = "none" /\ rx0 = 0 /\ preFault = FALSE
    /\ spe0 = TRUE
    /\ wrote = <<>>
    /\ lost = FALSE /\ seen = <<>>

\* ----------------------------------------------------- loop structure
\* Priming that fills one word more than the FIFO depth.
PrimeCount_deep(len) == Min(FIFO_WORDS + 1, len)

\* Priming that stops one word short of the FIFO depth.
PrimeCount_short(len) == Min(FIFO_WORDS - 1, len)

\* Priming that always fills the whole FIFO depth.
PrimeCount_nomin(len) == FIFO_WORDS

\* Number of words write/transfer prime the transmit FIFO with.
PrimeCount(len) == Min(FIFO_WORDS, len)

\* Number of dummy reads that end write.
DrainCount(len) == Min(FIFO_WORDS, len)

\* The exchange loop starting over at the first word.
WriteResume_restart(len) == 0

\* Position of write's iterator when `for word in write` takes it over.
WriteResume(len) == PrimeCount(len)

\* A second loop that ends one index early.
TransferEnd_short(len) == len + FIFO_WORDS - 1

\* One past the last logical index of transfer's second loop.
TransferEnd(len) == len + FIFO_WORDS

\* A received word stored one position ahead.
StoreIndex_ahead(i) == i - FIFO_WORDS + 1

\* Buffer position (0-based) transfer stores the word received at index i to.
StoreIndex(i) == i - FIFO_WORDS

\* A poll loop comparing with `>` instead of `>=`.
PollLimit_late == MAX_ITERS * 10 + 1

\* Iterations after which a poll loop of exchange_duplex/read_duplex gives up.
PollLimit == MAX_ITERS * 10

\* Iterations after which the poll loop of read2/write_one gives up.
SinglePollLimit == MAX_ITERS

\* The operations that are one primitive by themselves.
SingleWord == {"read2", "write_one"}

\* The call sites that propagate a primitive's error with `?`.
Propagates(o, ph) == o = "transfer" /\ ph # "prime"

\* The call returns r.
Finish(r) ==
    /\ op' = "idle" /\ phase' = "none" /\ pc' = "idle"
    /\ idx' = idx /\ iters' = 0 /\ ret' = r

\* i is a valid (0-based) index of the caller's buffer.
InRange(i) == i >= 0 /\ i < Len(words)

\* The call goes on with the primitive at p, in phase ph at index i.
GoTo(ph, i, p) ==
    /\ op' = op /\ phase' = ph /\ pc' = p
    /\ idx' = i /\ iters' = 0 /\ ret' = ret

\* transfer: the body of `for i in FIFO_WORDS..len + FIFO_WORDS` at index i.
TransferMain(i) ==
    IF i >= TransferEnd(Len(words)) THEN Finish("Ok")
    ELSE IF i < Len(words) THEN GoTo("exch", i, "ex_check")
    ELSE GoTo("drain", i, "rd_check")

\* transfer: what follows the primitive that just returned.
TransferNext ==
    IF phase = "prime"
    THEN IF idx + 1 < PrimeCount(Len(words))
         THEN GoTo("prime", idx + 1, "send_check")
         ELSE TransferMain(FIFO_WORDS)
    ELSE TransferMain(idx + 1)

\* write: the three loops over the iterator `write`.
WriteDrain ==
    GoTo("drain", 0, "rd_check")

WriteNext ==
    CASE phase = "prime" ->
            IF idx + 1 < PrimeCount(Len(words))
            THEN GoTo("prime", idx + 1, "send_check")
            ELSE IF WriteResume(Len(words)) < Len(words)
                 THEN GoTo("exch", WriteResume(Len(words)), "ex_check")
                 ELSE WriteDrain
      [] phase = "exch" ->
            IF idx + 1 < Len(words)
            THEN GoTo("exch", idx + 1, "ex_check")
            ELSE WriteDrain
      [] OTHER ->
            IF idx + 1 < DrainCount(Len(words))
            THEN GoTo("drain", idx + 1, "rd_check")
            ELSE Finish("Ok")

\* The running primitive returns res ("Ok" or an error kind) to its caller.
Continue(res) ==
    IF op \in SingleWord THEN Finish(res)
    ELSE IF res # "Ok" /\ Propagates(op, phase) THEN Finish(res)
    ELSE IF op = "write" THEN WriteNext
    ELSE TransferNext

InCall == op \in {"write", "transfer"}

\* History of a fresh call on buf.
StartHist(c, buf) ==
    /\ call' = c /\ orig' = buf /\ txlog' = <<>> /\ nLoads' = 0 /\ polls' = 0
    /\ primRes' = "none" /\ errSeen' = FALSE /\ lateCall' = FALSE /\ nPrims' = 0
    /\ timedOut' = FALSE /\ lost' = FALSE /\ seen' = <<>>
    /\ rx0' = IF c = "none" THEN 0 ELSE Len(rxfifo)
    /\ preFault' = (c # "none" /\ faults # {})
    /\ spe0' = IF c = "none" THEN TRUE ELSE spe
    /\ wrote' = <<>>

\* ------------------------------------------------------ register access
\* One single-byte store to TXDR, and what the peripheral does with it.
Store(w) ==
    /\ txlog' = Append(txlog, w)
    /\ txc' = alive
    /\ IF alive /\ Len(rxfifo) < RxFifoCap
       THEN rxfifo' = Append(rxfifo, Echo(w)) /\ faults' = faults /\ lost' = lost
       ELSE /\ rxfifo' = rxfifo
            /\ faults' = IF alive THEN faults \cup {"ovr"} ELSE faults
            /\ lost' = TRUE
    /\ UNCHANGED <<eot, alive, spe, cstart, ier, pwr, mbr>>

\* The byte a load from RXDR yields.
RxHead == IF rxfifo = <<>> THEN 0 ELSE Head(rxfifo)

\* One single-byte load from RXDR.
Load ==
    /\ nLoads' = nLoads + 1
    /\ rxfifo' = IF rxfifo = <<>> THEN rxfifo ELSE Tail(rxfifo)
    /\ UNCHANGED <<faults, txc, eot, alive, spe, cstart, ier, pwr, mbr>>

\* The access log with one more access.
Logged(a) == IF seen # <<>> /\ seen[Len(seen)] = a /\ a = "poll"
             THEN seen ELSE Append(seen, a)

\* A status check that lets every status pass.
Check_blind(prim, next) ==
    /\ seen' = <<prim>>
    /\ lateCall' = (lateCall \/ errSeen)
    /\ nPrims' = nPrims + 1
    /\ polls' = 0
    /\ primRes' = "none" /\ errSeen' = errSeen
    /\ pc' = next /\ iters' = 0
    /\ UNCHANGED <<op, phase, idx, ret>>
    /\ UNCHANGED <<words, orig, txlog, nLoads, timedOut, call, rx0, preFault, spe0, wrote, lost>>
    /\ UNCHANGED hw

\* check_errors!(self.regs.sr.read()) at the head of primitive `prim`; `next`
\* is the position after a clean status.
Check(prim, next) ==
    /\ seen' = <<prim>>
    /\ lateCall' = (lateCall \/ errSeen)
    /\ nPrims' = nPrims + 1
    /\ polls' = 0
    /\ IF check_errors(faults) # "none"
       THEN /\ primRes' = "fault" /\ errSeen' = TRUE
            /\ Continue(check_errors(faults))
       ELSE /\ primRes' = "none" /\ errSeen' = errSeen
            /\ pc' = next /\ iters' = 0
            /\ UNCHANGED <<op, phase, idx, ret>>
    /\ UNCHANGED <<words, orig, txlog, nLoads, timedOut, call, rx0, preFault, spe0, wrote, lost>>
    /\ UNCHANGED hw

\* A poll loop without the iteration count.
Poll_forever(flag, limit, next) ==
    /\ IF flag
       THEN /\ pc' = next /\ polls' = polls + 1 /\ seen' = Logged("poll")
            /\ UNCHANGED <<op, phase, idx, iters, ret, primRes, errSeen, timedOut>>
       ELSE UNCHANGED <<op, phase, pc, idx, iters, ret, primRes, errSeen, timedOut,
                        polls, seen>>
    /\ UNCHANGED <<words, orig, txlog, nLoads, lateCall, nPrims, call, rx0, preFault, spe0, wrote, lost>>
    /\ UNCHANGED hw

\* One iteration of `while !flag { i += 1; if i >= limit { return Err } }`.
Poll(flag, limit, next) ==
    /\ polls' = polls + 1
    /\ seen' = Logged("poll")
    /\ IF flag
       THEN /\ pc' = next
            /\ UNCHANGED <<op, phase, idx, iters, ret, primRes, errSeen, timedOut>>
       ELSE IF iters + 1 >= limit
            THEN /\ primRes' = "timeout" /\ errSeen' = TRUE /\ timedOut' = TRUE
                 /\ Continue("Hardware")
            ELSE /\ iters' = iters + 1
                 /\ UNCHANGED <<op, phase, pc, idx, ret, primRes, errSeen, timedOut>>
    /\ UNCHANGED <<words, orig, txlog, nLoads, lateCall, nPrims, call, rx0, preFault, spe0, wrote, lost>>
    /\ UNCHANGED hw

\* ------------------------------------------------------------ operations
\* A call starts on an enabled peripheral whose last end-of-transaction flag
\* the caller has cleared.
Ready == op = "idle" /\ ret = "none" /\ spe /\ ~eot

\* A call that never takes the early return.
EmptyReturns_never(buf) == FALSE

\* `if words.is_empty() { return Ok(()); }`
EmptyReturns(buf) == buf = <<>>

WriteCall(buf) ==
    /\ Ready
    /\ words' = buf
    /\ StartHist("write", buf)
    /\ IF EmptyReturns(buf)
       THEN Finish("Ok")
       ELSE /\ op' = "write" /\ phase' = "prime" /\ pc' = "send_check"
            /\ idx' = 0 /\ iters' = 0 /\ ret' = "none"
    /\ UNCHANGED hw

TransferCall(buf) ==
    /\ Ready
    /\ words' = buf
    /\ StartHist("transfer", buf)
    /\ IF EmptyReturns(buf)
       THEN Finish("Ok")
       ELSE /\ op' = "transfer" /\ phase' = "prime" /\ pc' = "send_check"
            /\ idx' = 0 /\ iters' = 0 /\ ret' = "none"
    /\ UNCHANGED hw

\* Indexing the buffer out of range (or unwrapping an exhausted iterator)
\* panics: the call ends there.
Panic ==
    /\ Finish("panic")
    /\ UNCHANGED words
    /\ UNCHANGED hw
    /\ UNCHANGED hist

\* self.send(words[i]) / self.send(*write.next().unwrap()): the argument is
\* evaluated before send runs.
SendCheck ==
    /\ InCall /\ pc = "send_check"
    /\ IF InRange(idx) THEN Check("send", "send_store") ELSE Panic

SendStore ==
    /\ InCall /\ pc = "send_store"
    /\ Store(words[idx + 1])
    /\ pc' = "send_cstart"
    /\ seen' = Logged("store")
    /\ UNCHANGED <<op, phase, words, idx, iters, ret>>
    /\ UNCHANGED <<orig, nLoads, polls, primRes, errSeen, lateCall, nPrims, timedOut,
                   call, rx0, preFault, spe0, wrote>>

SendCstart ==
    /\ InCall /\ pc = "send_cstart"
    /\ cstart' = TRUE
    /\ seen' = Logged("cstart")
    /\ primRes' = "Ok"
    /\ Continue("Ok")
    /\ UNCHANGED <<words, faults, txc, eot, rxfifo, alive, spe, ier, pwr, mbr>>
    /\ UNCHANGED <<orig, txlog, nLoads, polls, errSeen, lateCall, nPrims, timedOut,
                   call, rx0, preFault, spe0, wrote, lost>>

\* An exchange that stores before it waits.
ExOrder_storeFirst == <<"ex_store", "ex_poll", "ex_load">>

\* The statements of exchange_duplex after the status check, in program order.
ExOrder == <<"ex_poll", "ex_store", "ex_load">>

\* The statement that follows statement p.
ExAfter(p) == ExOrder[(CHOOSE k \in 1..Len(ExOrder) : ExOrder[k] = p) + 1]

ExCheck ==
    /\ InCall /\ pc = "ex_check"
    /\ IF InRange(idx) THEN Check("exchange", ExOrder[1]) ELSE Panic

ExPoll ==
    /\ InCall /\ pc = "ex_poll"
    /\ Poll(Dxp, PollLimit, ExAfter("ex_poll"))

ExStore ==
    /\ InCall /\ pc = "ex_store"
    /\ Store(words[idx + 1])
    /\ pc' = ExAfter("ex_store")
    /\ seen' = Logged("store")
    /\ UNCHANGED <<op, phase, words, idx, iters, ret>>
    /\ UNCHANGED <<orig, nLoads, polls, primRes, errSeen, lateCall, nPrims, timedOut,
                   call, rx0, preFault, spe0, wrote>>

\* The load that ends a successful exchange_duplex/read_duplex/read2;
\* transfer stores the byte at words[i - FIFO_WORDS], write drops it, read2
\* returns it.
LoadAndReturn ==
    /\ Load
    /\ seen' = Logged("load")
    /\ primRes' = "Ok"
    /\ IF op = "transfer" /\ ~InRange(StoreIndex(idx))
       THEN /\ Finish("panic")
            /\ UNCHANGED <<words, wrote>>
       ELSE /\ words' = IF op = "transfer"
                        THEN [words EXCEPT ![StoreIndex(idx) + 1] = RxHead]
                        ELSE IF op = "read2" THEN <<RxHead>>
                        ELSE words
            /\ wrote' = IF op = "transfer"
                        THEN Append(wrote, StoreIndex(idx))
                        ELSE wrote
            /\ Continue("Ok")
    /\ UNCHANGED <<orig, txlog, polls, errSeen, lateCall, nPrims, timedOut, call, rx0,
                   preFault, spe0, lost>>

ExLoad ==
    /\ InCall /\ pc = "ex_load"
    /\ LoadAndReturn

RdCheck ==
    /\ InCall /\ pc = "rd_check"
    /\ Check("receive", "rd_poll")

RdPoll ==
    /\ InCall /\ pc = "rd_poll"
    /\ Poll(Rxp, PollLimit, "rd_load")

RdLoad ==
    /\ InCall /\ pc = "rd_load"
    /\ LoadAndReturn

\* read2: one byte out of the receive FIFO, kept in `words` as the value
\* returned.
Read2Call ==
    /\ Ready
    /\ words' = <<>>
    /\ StartHist("read2", <<>>)
    /\ op' = "read2" /\ phase' = "none" /\ pc' = "r2_check"
    /\ idx' = 0 /\ iters' = 0 /\ ret' = "none"
    /\ UNCHANGED hw

R2Check ==
    /\ op = "read2" /\ pc = "r2_check"
    /\ Check("read2", "r2_poll")

R2Poll ==
    /\ op = "read2" /\ pc = "r2_poll"
    /\ Poll(Rxwne, SinglePollLimit, "r2_load")

R2Load ==
    /\ op = "read2" /\ pc = "r2_load"
    /\ LoadAndReturn

\* write_one: one byte into the transmit data register.
WriteOneCall(byte) ==
    /\ Ready
    /\ words' = <<byte>>
    /\ StartHist("write_one", <<byte>>)
    /\ op' = "write_one" /\ phase' = "none" /\ pc' = "w1_check"
    /\ idx' = 0 /\ iters' = 0 /\ ret' = "none"
    /\ UNCHANGED hw

W1Check ==
    /\ op = "write_one" /\ pc = "w1_check"
    /\ Check("write_one", "w1_poll")

W1Poll ==
    /\ op = "write_one" /\ pc = "w1_poll"
    /\ Poll(txc, SinglePollLimit, "w1_store")

W1Store ==
    /\ op = "write_one" /\ pc = "w1_store"
    /\ Store(words[1])
    /\ seen' = Logged("store")
    /\ primRes' = "Ok"
    /\ Finish("Ok")
    /\ UNCHANGED <<words, orig, nLoads, polls, errSeen, lateCall, nPrims, timedOut,
                   call, rx0, preFault, spe0, wrote>>

\* disable(): wait for TXC, wait for EOT, drain the receive FIFO, clear SPE.
\* A disable that does not wait for TXC.
DisableEntry_skip == "dis_eot"

\* Its first statement is the wait for TXC.
DisableEntry == "dis_txc"

\* A drain loop that tests RXWNE alone.
AfterRxwne_only(set) == IF set THEN "dis_load" ELSE "dis_spe"

\* `while rxwne().bit_is_set() || rxplvl().bits() != 0`: where the loop goes
\* after its left operand, and after its right operand.
AfterRxwne(set) == IF set THEN "dis_load" ELSE "dis_rxplvl"

\* A drain loop whose body never loads.
AfterRxplvl_spin(lvl) == IF lvl # 0 THEN "dis_rxwne" ELSE "dis_spe"

AfterRxplvl(lvl) == IF lvl # 0 THEN "dis_load" ELSE "dis_spe"

DisableCall ==
    /\ op = "idle" /\ ret = "none"
    /\ op' = "disable" /\ phase' = "none" /\ pc' = DisableEntry
    /\ ret' = "none" /\ iters' = 0
    /\ StartHist("disable", <<>>)
    /\ UNCHANGED <<words, idx>>
    /\ UNCHANGED hw

\* `while self.regs.sr.read().txc().bit_is_clear() {}`
DisTxc ==
    /\ op = "disable" /\ pc = "dis_txc"
    /\ txc
    /\ pc' = "dis_eot"
    /\ seen' = Append(seen, "txc")
    /\ UNCHANGED <<op, phase, words, idx, iters, ret>>
    /\ UNCHANGED <<orig, txlog, nLoads, polls, primRes, errSeen, lateCall, nPrims, timedOut,
                   call, rx0, preFault, spe0, wrote, lost>>
    /\ UNCHANGED hw

\* `while self.regs.sr.read().eot().bit_is_clear() {}`
DisEot ==
    /\ op = "disable" /\ pc = "dis_eot"
    /\ eot
    /\ pc' = "dis_rxwne"
    /\ seen' = Append(seen, "eot")
    /\ UNCHANGED <<op, phase, words, idx, iters, ret>>
    /\ UNCHANGED <<orig, txlog, nLoads, polls, primRes, errSeen, lateCall, nPrims, timedOut,
                   call, rx0, preFault, spe0, wrote, lost>>
    /\ UNCHANGED hw

\* Left operand of the drain loop's condition: RXWNE set?
DisRxwne ==
    /\ op = "disable" /\ pc = "dis_rxwne"
    /\ pc' = AfterRxwne(Rxwne)
    /\ UNCHANGED <<op, phase, words, idx, iters, ret>>
    /\ UNCHANGED hist
    /\ UNCHANGED hw

\* Right operand of the drain loop's condition: RXPLVL nonzero?
DisRxplvl ==
    /\ op = "disable" /\ pc = "dis_rxplvl"
    /\ pc' = AfterRxplvl(Rxplvl)
    /\ seen' = IF pc' = "dis_spe" THEN Append(seen, "empty") ELSE seen
    /\ UNCHANGED <<op, phase, words, idx, iters, ret>>
    /\ UNCHANGED <<orig, txlog, nLoads, polls, primRes, errSeen, lateCall, nPrims, timedOut,
                   call, rx0, preFault, spe0, wrote, lost>>
    /\ UNCHANGED hw

\* Body of the drain loop: one discarded load from RXDR.
DisLoad ==
    /\ op = "disable" /\ pc = "dis_load"
    /\ Load
    /\ pc' = "dis_rxwne"
    /\ seen' = Append(seen, "load")
    /\ UNCHANGED <<op, phase, words, idx, iters, ret>>
    /\ UNCHANGED <<orig, txlog, polls, primRes, errSeen, lateCall, nPrims, timedOut, call,
                   rx0, preFault, spe0, wrote, lost>>

\* `self.regs.cr1.modify(|_, w| w.spe().clear_bit())`, then return.
DisSpe ==
    /\ op = "disable" /\ pc = "dis_spe"
    /\ spe' = FALSE
    /\ seen' = Append(seen, "spe")
    /\ Finish("Unit")
    /\ UNCHANGED <<words, faults, txc, eot, rxfifo, alive, cstart, ier, pwr, mbr>>
    /\ UNCHANGED <<orig, txlog, nLoads, polls, primRes, errSeen, lateCall, nPrims, timedOut,
                   call, rx0, preFault, spe0, wrote, lost>>

\* Spi::new on the peripheral: RCC reset, configuration, SPE set.
New(br) ==
    /\ op = "idle" /\ ret = "none"
    /\ faults' = {} /\ txc' = TRUE /\ eot' = FALSE /\ rxfifo' = <<>>
    /\ alive' = TRUE /\ spe' = TRUE /\ cstart' = FALSE /\ ier' = {}
    /\ mbr' = br
    /\ UNCHANGED pwr
    /\ ret' = "none" /\ words' = <<>> /\ idx' = 0
    /\ StartHist("none", <<>>)
    /\ UNCHANGED <<op, phase, pc, iters>>

\* ------------------------------------------------------------ interrupts
SpiInterrupt == {"NumberOfTransactionsReload", "ModeFault", "Tifre", "CrcError",
                 "Overrun", "Underrun", "Txtfie", "EotSuspTxc", "Dxp", "Txp", "Rxp"}

\* The SPI_IER bit enable_interrupt sets for an interrupt kind.
IerBit(k) ==
    CASE k = "NumberOfTransactionsReload" -> "tserfie"
      [] k = "ModeFault" -> "modfie"
      [] k = "Tifre" -> "tifreie"
      [] k = "CrcError" -> "crceie"
      [] k = "Overrun" -> "ovrie"
      [] k = "Underrun" -> "udrie"
      [] k = "Txtfie" -> "txtfie"
      [] k = "EotSuspTxc" -> "eotie"
      [] OTHER -> "eotie"

EnableInterrupt(k) ==
    /\ op = "idle" /\ ret = "none"
    /\ ier' = ier \cup {IerBit(k)}
    /\ UNCHANGED <<faults, txc, eot, rxfifo, alive, spe, cstart, pwr, mbr>>
    /\ UNCHANGED drv
    /\ UNCHANGED hist

\* The SPI_IFCR bit clear_interrupt writes for an interrupt kind.
IfcrBit(k) ==
    CASE k = "NumberOfTransactionsReload" -> "tserfc"
      [] k = "ModeFault" -> "modfc"
      [] k = "Tifre" -> "tifrec"
      [] k = "CrcError" -> "crcec"
      [] k = "Overrun" -> "ovrc"
      [] k = "Underrun" -> "udrc"
      [] k = "Txtfie" -> "txtfc"
      [] k = "EotSuspTxc" -> "eotc"
      [] OTHER -> "eotc"

\* The SPI_SR flag an SPI_IFCR bit clears.
IfcrClears(b) ==
    CASE b = "modfc" -> "modf"
      [] b = "tifrec" -> "tifre"
      [] b = "crcec" -> "crce"
      [] b = "ovrc" -> "ovr"
      [] b = "udrc" -> "udr"
      [] b = "eotc" -> "eot"
      [] OTHER -> "none"

ClearInterrupt(k) ==
    /\ op = "idle" /\ ret = "none"
    /\ faults' = faults \ {IfcrClears(IfcrBit(k))}
    /\ eot' = (eot /\ IfcrClears(IfcrBit(k)) # "eot")
    /\ UNCHANGED <<txc, rxfifo, alive, spe, cstart, ier, pwr, mbr>>
    /\ UNCHANGED drv
    /\ UNCHANGED hist

\* ----------------------------------------------------------- environment
\* The faults a master with CRC off and Motorola framing can latch
\* (Spi::new clears CRCEN and sets MASTER).
EnvFaults == {"modf", "ovr"}

\* The peripheral latches a fault flag (one fault at a time).
HwFault(f) ==
    /\ faults = {}
    /\ faults' = faults \cup {f}
    /\ UNCHANGED <<txc, eot, rxfifo, alive, spe, cstart, ier, pwr, mbr>>
    /\ UNCHANGED drv
    /\ UNCHANGED hist

\* The peripheral stops shifting words: nothing sent from now on is answered.
HwStall ==
    /\ alive
    /\ alive' = FALSE
    /\ UNCHANGED <<faults, txc, eot, rxfifo, spe, cstart, ier, pwr, mbr>>
    /\ UNCHANGED drv
    /\ UNCHANGED hist

\* The transaction ends: EOT is raised and the hardware clears CSTART.
HwEot ==
    /\ alive /\ cstart /\ ~InCall
    /\ eot' = TRUE
    /\ cstart' = FALSE
    /\ UNCHANGED <<faults, txc, rxfifo, alive, spe, ier, pwr, mbr>>
    /\ UNCHANGED drv
    /\ UNCHANGED hist

\* --------------------------------------------------------------- reclock
\* The baud rate written while the peripheral is still enabled.
RcOrder_hot == <<"rc_mbr", "rc_spe_clear", "rc_spe_set">>

\* The statements of reclock, in program order.
RcOrder == <<"rc_spe_clear", "rc_mbr", "rc_spe_set">>

\* reclock goes on with its next statement, or returns after the last.
RcStep ==
    IF pc = RcOrder[Len(RcOrder)]
    THEN Finish("Unit")
    ELSE /\ pc' = RcOrder[(CHOOSE k \in 1..Len(RcOrder) : RcOrder[k] = pc) + 1]
         /\ UNCHANGED <<op, phase, idx, iters, ret>>

\* Spi::reclock(baud_rate), called in any state of the peripheral.
ReclockCall(br) ==
    /\ op = "idle" /\ ret = "none"
    /\ op' = "reclock" /\ phase' = "none" /\ pc' = RcOrder[1]
    /\ words' = <<br>> /\ idx' = 0 /\ iters' = 0 /\ ret' = "none"
    /\ StartHist("reclock", <<br>>)
    /\ UNCHANGED hw

\* cr1.modify(spe().clear_bit())
RcSpeClear ==
    /\ op = "reclock" /\ pc = "rc_spe_clear"
    /\ spe' = FALSE
    /\ seen' = Append(seen, "spe_clear")
    /\ RcStep
    /\ UNCHANGED <<words, faults, txc, eot, rxfifo, alive, cstart, ier, pwr, mbr>>
    /\ UNCHANGED <<orig, txlog, nLoads, polls, primRes, errSeen, lateCall, nPrims, timedOut,
                   call, rx0, preFault, spe0, wrote, lost>>

\* cfg1.modify(mbr().bits(baud_rate as u8))
RcMbr ==
    /\ op = "reclock" /\ pc = "rc_mbr"
    /\ mbr' = words[1]
    /\ seen' = Append(seen, "mbr")
    /\ RcStep
    /\ UNCHANGED <<words, faults, txc, eot, rxfifo, alive, spe, cstart, ier, pwr>>
    /\ UNCHANGED <<orig, txlog, nLoads, polls, primRes, errSeen, lateCall, nPrims, timedOut,
                   call, rx0, preFault, spe0, wrote, lost>>

\* cr1.modify(spe().set_bit())
RcSpeSet ==
    /\ op = "reclock" /\ pc = "rc_spe_set"
    /\ spe' = TRUE
    /\ seen' = Append(seen, "spe_set")
    /\ RcStep
    /\ UNCHANGED <<words, faults, txc, eot, rxfifo, alive, cstart, ier, pwr, mbr>>
    /\ UNCHANGED <<orig, txlog, nLoads, polls, primRes, errSeen, lateCall, nPrims, timedOut,
                   call, rx0, preFault, spe0, wrote, lost>>

\* The caller has taken the result of the call that returned; nothing of the
\* call survives in the driver.
Return ==
    /\ op = "idle" /\ ret # "none"
    /\ ret' = "none" /\ words' = <<>> /\ idx' = 0
    /\ StartHist("none", <<>>)
    /\ UNCHANGED <<op, phase, pc, iters>>
    /\ UNCHANGED hw

Next ==
    \/ \E buf \in Buffers : WriteCall(buf)
    \/ \E buf \in Buffers : TransferCall(buf)
    \/ SendCheck \/ SendStore \/ SendCstart
    \/ ExCheck \/ ExPoll \/ ExStore \/ ExLoad
    \/ RdCheck \/ RdPoll \/ RdLoad
    \/ Read2Call \/ R2Check \/ R2Poll \/ R2Load
    \/ \E byte \in Words : WriteOneCall(byte)
    \/ W1Check \/ W1Poll \/ W1Store
    \/ DisableCall \/ DisTxc \/ DisEot \/ DisRxwne \/ DisRxplvl \/ DisLoad \/ DisSpe
    \/ New(DefaultBaud)
    \/ \E k \in SpiInterrupt : ClearInterrupt(k)
    \/ \E f \in EnvFaults : HwFault(f)
    \/ HwStall \/ HwEot
    \/ Return

Spec == Init /\ [][Next]_vars

\* ------------------------------------------------------------ low power
\* low_power.rs, the L4/L5 variant of stop, standby and shutdown.
LpFns == {"sleep_now", "sleep_on_exit", "stop", "standby", "shutdown"}
SleepFns == {"sleep_now", "sleep_on_exit"}

\* enum StopMode as u8.
StopModes == {0, 1, 2}

\* LPMS written by standby.
StandbyLpms == 3

\* A shutdown that writes the LPMS value of standby.
ShutdownLpms_standby == StandbyLpms

\* LPMS written by shutdown.
ShutdownLpms == 4

\* The clock inputs a caller may ask to have re-selected, and the sources the
\* hardware runs from when it leaves a Stop mode.
InputSrcs == {"Msi", "Hsi", "Pll"}
WakeClocks == {"Msi", "Hsi"}

\* The value a function writes to PWR_CR1.LPMS.
LpmsOf(f, mode) ==
    CASE f = "stop" -> mode
      [] f = "standby" -> StandbyLpms
      [] OTHER -> ShutdownLpms

\* The mode the core enters when WFI executes with these register values.
HwMode(sd, l) ==
    IF ~sd THEN "sleep"
    ELSE CASE l = 0 -> "stop0"
           [] l = 1 -> "stop1"
           [] l = 2 -> "stop2"
           [] l = 3 -> "standby"
           [] OTHER -> "shutdown"

\* The SPI side does not move while a low-power function runs.
SpiIdle ==
    /\ UNCHANGED <<faults, txc, eot, rxfifo, alive, spe, cstart, ier, mbr>>
    /\ UNCHANGED drv
    /\ UNCHANGED hist

LpCall(f, mode, src) ==
    /\ lppc = "idle" /\ op = "idle" /\ ret = "none"
    /\ lpop' = f /\ lpsrc' = src
    /\ lparg' = IF f = "stop" THEN mode ELSE 0
    /\ lppc' = "sleepdeep" /\ lplog' = <<>> /\ entered' = "none"
    /\ UNCHANGED <<sleepdeep, sleeponexit, lpms, scr, clk>>
    /\ SpiIdle

\* scb.clear_sleepdeep() / scb.set_sleepdeep()
LpSleepdeep ==
    /\ lppc = "sleepdeep"
    /\ sleepdeep' = (lpop \notin SleepFns)
    /\ lplog' = Append(lplog, IF lpop \in SleepFns THEN "clear_sleepdeep"
                                                   ELSE "set_sleepdeep")
    /\ lppc' = IF lpop \in SleepFns THEN "sleeponexit" ELSE "lpms"
    /\ UNCHANGED <<sleeponexit, lpms, scr, clk, lpop, lparg, lpsrc, entered>>
    /\ SpiIdle

\* scb.clear_sleeponexit() / scb.set_sleeponexit()
LpSleeponexit ==
    /\ lppc = "sleeponexit"
    /\ sleeponexit' = (lpop = "sleep_on_exit")
    /\ lplog' = Append(lplog, "sleeponexit")
    /\ lppc' = "wfi"
    /\ UNCHANGED <<sleepdeep, lpms, scr, clk, lpop, lparg, lpsrc, entered>>
    /\ SpiIdle

\* pwr.cr1.modify(|_, w| w.lpms().bits(..))
LpLpms ==
    /\ lppc = "lpms"
    /\ lpms' = LpmsOf(lpop, lparg)
    /\ lplog' = Append(lplog, "lpms")
    /\ lppc' = IF lpop = "stop" THEN "wfi" ELSE "scr"
    /\ UNCHANGED <<sleepdeep, sleeponexit, scr, clk, lpop, lparg, lpsrc, entered>>
    /\ SpiIdle

\* pwr.scr.write(|w| w.bits(0))
LpScr ==
    /\ lppc = "scr"
    /\ scr' = 0
    /\ lplog' = Append(lplog, "scr")
    /\ lppc' = "wfi"
    /\ UNCHANGED <<sleepdeep, sleeponexit, lpms, clk, lpop, lparg, lpsrc, entered>>
    /\ SpiIdle

\* wfi(): the core enters the mode its registers select.
LpWfi ==
    /\ lppc = "wfi"
    /\ entered' = HwMode(sleepdeep, lpms)
    /\ lplog' = Append(lplog, "wfi")
    /\ lppc' = "asleep"
    /\ UNCHANGED <<sleepdeep, sleeponexit, lpms, scr, clk, lpop, lparg, lpsrc>>
    /\ SpiIdle

\* An interrupt wakes the core and wfi() returns; after a Stop mode the
\* system runs from a wake-up clock.
LpWake ==
    /\ lppc = "asleep"
    /\ \E c \in WakeClocks :
         clk' = IF entered \in {"stop0", "stop1", "stop2"} THEN c ELSE clk
    /\ lplog' = Append(lplog, "wake")
    /\ lppc' = IF lpop \in SleepFns THEN "done" ELSE "reselect"
    /\ UNCHANGED <<sleepdeep, sleeponexit, lpms, scr, lpop, lparg, lpsrc, entered>>
    /\ SpiIdle

\* Leaving Standby or Shutdown is a reset: the function never returns.
LpReset ==
    /\ lppc = "asleep" /\ entered \in {"standby", "shutdown"}
    /\ sleepdeep' = FALSE /\ sleeponexit' = FALSE /\ lpms' = 0 /\ scr' = "none"
    /\ clk' = "Msi" /\ lpop' = "none" /\ lparg' = 0 /\ lpsrc' = "Msi"
    /\ lppc' = "idle" /\ lplog' = <<>> /\ entered' = "none"
    /\ SpiIdle

\* clocks::re_select_input(input_src, rcc)
LpReselect ==
    /\ lppc = "reselect"
    /\ clk' = lpsrc
    /\ lplog' = Append(lplog, "reselect")
    /\ lppc' = "done"
    /\ UNCHANGED <<sleepdeep, sleeponexit, lpms, scr, lpop, lparg, lpsrc, entered>>
    /\ SpiIdle

\* The caller goes on after the function has returned.
LpReturn ==
    /\ lppc = "done"
    /\ lppc' = "idle" /\ lpop' = "none" /\ lparg' = 0 /\ lplog' = <<>>
    /\ entered' = "none"
    /\ UNCHANGED <<sleepdeep, sleeponexit, lpms, scr, clk, lpsrc>>
    /\ SpiIdle

NextLp ==
    \/ \E f \in LpFns, mode \in StopModes, src \in InputSrcs : LpCall(f, mode, src)
    \/ LpSleepdeep \/ LpSleeponexit \/ LpLpms \/ LpScr
    \/ LpWfi \/ LpWake \/ LpReset \/ LpReselect \/ LpReturn

SpecLp == Init /\ [][NextLp]_vars

\* The interrupt surface by itself: it is not coordinated with the blocking
\* calls, so it is explored apart from them.
NextIrq ==
    \/ \E k \in SpiInterrupt : EnableInterrupt(k)
    \/ \E k \in SpiInterrupt : ClearInterrupt(k)
    \/ \E f \in EnvFaults : HwFault(f)
    \/ New(DefaultBaud)

SpecIrq == Init /\ [][NextIrq]_vars

\* The steps of the driver's own code.  The processor runs the one thread of
\* the driver: a statement that can run does run.
DriverStep ==
    \/ SendCheck \/ SendStore \/ SendCstart
    \/ ExCheck \/ ExPoll \/ ExStore \/ ExLoad
    \/ RdCheck \/ RdPoll \/ RdLoad
    \/ R2Check \/ R2Poll \/ R2Load
    \/ W1Check \/ W1Poll \/ W1Store
    \/ DisTxc \/ DisEot \/ DisRxwne \/ DisRxplvl \/ DisLoad \/ DisSpe

\* Whether write, transfer or disable returns does not depend on the values
\* of the words, only on the length of the buffer: termination of the three
\* is explored with one buffer of each length.
LiveBuffers == {Marked(n, 0) : n \in 0..MaxLen}

NextLive ==
    \/ \E buf \in LiveBuffers : WriteCall(buf)
    \/ \E buf \in LiveBuffers : TransferCall(buf)
    \/ SendCheck \/ SendStore \/ SendCstart
    \/ ExCheck \/ ExPoll \/ ExStore \/ ExLoad
    \/ RdCheck \/ RdPoll \/ RdLoad
    \/ DisableCall \/ DisTxc \/ DisEot \/ DisRxwne \/ DisRxplvl \/ DisLoad \/ DisSpe
    \/ New(DefaultBaud)
    \/ \E k \in SpiInterrupt : ClearInterrupt(k)
    \/ \E f \in EnvFaults : HwFault(f)
    \/ HwStall \/ HwEot
    \/ Return

FairSpec == Init /\ [][NextLive]_vars /\ WF_vars(DriverStep)

\* Changing the baud rate between writes, with the bus quiesced or not: what
\* reclock finds in the peripheral is what write, disable and the hardware
\* have left there.
ClkStep == RcSpeClear \/ RcMbr \/ RcSpeSet

NextClk ==
    \/ \E buf \in LiveBuffers : WriteCall(buf)
    \/ SendCheck \/ SendStore \/ SendCstart
    \/ ExCheck \/ ExPoll \/ ExStore \/ ExLoad
    \/ RdCheck \/ RdPoll \/ RdLoad
    \/ DisableCall \/ DisTxc \/ DisEot \/ DisRxwne \/ DisRxplvl \/ DisLoad \/ DisSpe
    \/ \E br \in BaudRates : ReclockCall(br)
    \/ ClkStep
    \/ \E br \in BaudRates : New(br)
    \/ \E f \in EnvFaults : HwFault(f)
    \/ HwStall \/ HwEot
    \/ Return

SpecClk == Init /\ [][NextClk]_vars /\ WF_vars(ClkStep)

\* ================================================================ claims
\* The call c has returned and its result has not been taken yet.
Returned(c) == op = "idle" /\ call = c /\ ret # "none"

\* What the echoing peripheral answers to a whole buffer.
EchoAll(buf) == [i \in 1..Len(buf) |-> Echo(buf[i])]

\* s is an initial part of t.
IsPrefix(s, t) == Len(s) <= Len(t) /\ s = SubSeq(t, 1, Len(s))

\* The running or last primitive is prim.
InPrim(prim) == seen # <<>> /\ seen[1] = prim

\* The peripheral was fault-free and answered every word of the call.
FaultFree == faults = {} /\ ~lost

\* C1: against a fault-free echoing peripheral whose receive FIFO starts
\* empty, transfer on a buffer of length N >= 1 returns Ok and leaves
\* buffer[i] = echo(a_i) for every i.
C1_PipelineCorrect ==
    (Returned("transfer") /\ Len(orig) >= 1 /\ FaultFree /\ rx0 = 0)
        => (ret = "Ok" /\ words = EchoAll(orig))

C1_Witness ==
    /\ Returned("transfer") /\ FaultFree /\ rx0 = 0
    /\ orig = Marked(MaxLen, MaxLen)
    /\ ret = "Ok" /\ words = EchoAll(orig)

\* Words sent and not yet received: stores to TXDR minus loads from RXDR.
InFlight == Len(txlog) - nLoads

\* C2 as stated: at every instant of write/transfer the in-flight count lies
\* in 0..D.
C2_AsStated == InCall => (0 <= InFlight /\ InFlight <= FIFO_WORDS)

\* C2, amended: at every instant of write/transfer the in-flight count lies
\* in 0..D+1, and in 0..D except between the store and the load of one
\* exchange.
C2_InFlightBound ==
    InCall => /\ 0 <= InFlight
              /\ InFlight <= FIFO_WORDS + 1
              /\ (pc # "ex_load" => InFlight <= FIFO_WORDS)

C2_Witness == InCall /\ pc = "ex_load" /\ InFlight = FIFO_WORDS + 1

\* C3: with a fault flag set before any word is sent, write and transfer on
\* a non-empty buffer return a hardware fault and make no store to TXDR and
\* no load from RXDR.
C3_FaultBeforeSend ==
    ((Returned("write") \/ Returned("transfer")) /\ orig # <<>> /\ preFault)
        => (ret \in FaultKinds /\ txlog = <<>> /\ nLoads = 0)

\* C4: in write and transfer no primitive is invoked after one has returned
\* an error, and the call returns that error.
C4_AbortOnError ==
    /\ ~lateCall
    /\ ((Returned("write") \/ Returned("transfer")) /\ errSeen => ret # "Ok")

\* C5: against a fault-free responsive peripheral write on N >= 1 words
\* stores exactly a0..aN-1 to TXDR, in order, returns Ok and keeps nothing
\* of what it received.
C5_WriteInOrder ==
    (Returned("write") /\ Len(orig) >= 1 /\ FaultFree)
        => (ret = "Ok" /\ txlog = orig /\ words = orig)

C5_Witness ==
    /\ Returned("write") /\ FaultFree
    /\ orig = Marked(MaxLen, 1)
    /\ ret = "Ok" /\ txlog = orig

\* C6: a successful transfer of L >= 1 words makes exactly L stores to TXDR
\* and exactly L loads from RXDR.
C6_TransferCounts ==
    (Returned("transfer") /\ Len(orig) >= 1 /\ ret = "Ok")
        => (Len(txlog) = Len(orig) /\ nLoads = Len(orig))

C6_Witness ==
    /\ Returned("transfer") /\ ret = "Ok"
    /\ Len(orig) > FIFO_WORDS
    /\ Len(txlog) = Len(orig) /\ nLoads = Len(orig)

\* C7: when an awaited flag never rises and no fault flag is set, the
\* enclosing write or transfer returns the timeout error, which is none of
\* the hardware-fault kinds.
C7_TimeoutReported ==
    ((Returned("write") \/ Returned("transfer")) /\ timedOut /\ faults = {})
        => (ret = "Hardware" /\ ret \notin FaultKinds)

\* C8: a poll loop of exchange/receive reads its flag at most MAX_ITERS*10
\* times, and exactly MAX_ITERS*10 times when it gives up.
C8_PollBound ==
    (InPrim("exchange") \/ InPrim("receive"))
        => /\ polls <= MAX_ITERS * 10
           /\ primRes = "timeout" => polls = MAX_ITERS * 10

C8_Witness ==
    /\ Returned("transfer") /\ primRes = "timeout"
    /\ Len(orig) > FIFO_WORDS /\ idx = FIFO_WORDS
    /\ polls = MAX_ITERS * 10

\* Occurrences of x in the sequence s.
Count(s, x) == Cardinality({i \in 1..Len(s) : s[i] = x})

\* C9: disable on a peripheral whose receive FIFO holds K words makes
\* exactly K loads from RXDR, all of them before it clears SPE.
C9_DisableDrains ==
    call = "disable" =>
        /\ Count(seen, "load") = nLoads
        /\ nLoads <= rx0
        /\ (Count(seen, "spe") > 0 => nLoads = rx0 /\ seen[Len(seen)] = "spe")
        /\ (op = "disable" => Count(seen, "spe") = 0)
        /\ (Returned("disable") => Count(seen, "spe") = 1 /\ ~spe)

C9_Witness ==
    /\ Returned("disable") /\ rx0 = FIFO_WORDS
    /\ nLoads = FIFO_WORDS /\ ~spe

\* The order disable keeps: TXC seen, EOT seen, loads, FIFO seen empty, SPE
\* cleared.
DisableOrder(s) ==
    \A i \in 1..Len(s) :
        /\ (i = 1 => s[i] = "txc")
        /\ (i = 2 => s[i] = "eot")
        /\ (i > 2 => s[i] \in {"load", "empty", "spe"})
        /\ (s[i] = "load" /\ i < Len(s) => s[i + 1] \in {"load", "empty"})
        /\ (s[i] = "empty" /\ i < Len(s) => s[i + 1] = "spe")
        /\ (s[i] = "spe" => i = Len(s) /\ i > 1 /\ s[i - 1] = "empty")

\* C10: disable clears SPE only after it has seen TXC set, then EOT set, then
\* the receive FIFO empty; it loads nothing before both flags were seen and
\* clears SPE once, as its last access.
C10_DisableOrder ==
    call = "disable" =>
        /\ DisableOrder(seen)
        /\ (Returned("disable") => seen # <<>> /\ seen[Len(seen)] = "spe")
        /\ (op = "disable" /\ pc = "dis_spe" => seen[Len(seen)] = "empty")

C10_Witness ==
    /\ Returned("disable")
    /\ seen = <<"txc", "eot", "load", "load", "empty", "spe">>

\* C11: disable has no timeout.  While TXC is clear it stays at its first
\* wait, while EOT is clear at its second, and it leaves only with both flags
\* seen, the receive FIFO empty and SPE cleared; once TXC and EOT are both
\* set it does return with SPE cleared.
C11_DisableNoTimeout ==
    /\ [][(op = "disable" /\ pc = "dis_txc" /\ ~txc)
            => (op' = "disable" /\ pc' = "dis_txc" /\ spe' = spe)]_vars
    /\ [][(op = "disable" /\ pc = "dis_eot" /\ ~eot)
            => (op' = "disable" /\ pc' = "dis_eot" /\ spe' = spe)]_vars
    /\ [][(op = "disable" /\ op' # "disable")
            => (txc /\ eot /\ rxfifo = <<>> /\ ~spe')]_vars
    /\ ((op = "disable" /\ txc /\ eot) ~> (Returned("disable") /\ ~spe))

C11_Witness == op = "disable" /\ pc = "dis_txc" /\ ~txc /\ ~alive /\ spe

\* C12: every call of write or transfer returns, whatever the peripheral
\* does: a call in progress leads to a returned call, every poll loop stays
\* below its limit, and a call invokes at most len + FIFO_WORDS primitives.
C12_AlwaysReturns ==
    /\ (InCall ~> (~InCall /\ ret # "none"))
    /\ [](iters < PollLimit)
    /\ [](call \in {"write", "transfer"} => nPrims <= Len(orig) + FIFO_WORDS)

C12_Witness ==
    /\ Returned("write") /\ ~alive /\ timedOut
    /\ Len(orig) = MaxLen /\ nPrims = Len(orig) + FIFO_WORDS

\* C13: write and transfer on an empty buffer return Ok at once and touch no
\* register: no status read, no poll, no store, no load, no control-register
\* write, whatever the status register holds.
C13_EmptyNoAccess ==
    /\ [](call \in {"write", "transfer"} /\ orig = <<>>
            => /\ op = "idle" /\ ret = "Ok"
               /\ nPrims = 0 /\ polls = 0 /\ seen = <<>>
               /\ txlog = <<>> /\ nLoads = 0)
    /\ [][(call' \in {"write", "transfer"} /\ orig' = <<>> /\ ret = "none")
            => hw' = hw]_vars

C13_Witness == Returned("transfer") /\ orig = <<>> /\ ret = "Ok" /\ faults # {}

\* C14: read2 and write_one block until the byte is available: read2 loads
\* only with RXWNE seen set, write_one stores only with TXC seen set, and
\* with no fault flag classified neither returns before that.
C14_BlocksUntilReady ==
    /\ (op = "read2" /\ pc = "r2_load") => Rxwne
    /\ (op = "write_one" /\ pc = "w1_store") => txc
    /\ (Returned("read2") /\ primRes # "fault")
            => (ret = "Ok" /\ nLoads = 1 /\ seen = <<"read2", "poll", "load">>)
    /\ (Returned("write_one") /\ primRes # "fault")
            => (ret = "Ok" /\ txlog = orig /\ seen = <<"write_one", "poll", "store">>)

\* read2 and write_one touch the data register only with their flag seen
\* set, and return Ok only then.
SingleWordGuarded ==
    /\ (op = "read2" /\ pc = "r2_load") => Rxwne
    /\ (op = "write_one" /\ pc = "w1_store") => txc
    /\ (Returned("read2") /\ ret = "Ok")
            => (nLoads = 1 /\ seen = <<"read2", "poll", "load">>)
    /\ (Returned("write_one") /\ ret = "Ok")
            => (txlog = orig /\ seen = <<"write_one", "poll", "store">>)
    /\ (call \in SingleWord /\ ret # "Ok") => (nLoads = 0 /\ txlog = <<>>)

\* C15 as stated: exchange stores the word first, then polls
\* duplex-data-available, then loads once on success; the store precedes the
\* first poll.
C15_AsStated ==
    InPrim("exchange")
        => /\ IsPrefix(seen, <<"exchange", "store", "poll", "load">>)
           /\ primRes = "Ok" => seen = <<"exchange", "store", "poll", "load">>

\* C15, amended: exchange classifies the status, then polls
\* duplex-data-available, and only with the flag seen set stores the word and
\* then loads once; after a fault it has made no access, after a timeout no
\* store and no load.
C15_ExchangeOrder ==
    InPrim("exchange")
        => /\ IsPrefix(seen, <<"exchange", "poll", "store", "load">>)
           /\ primRes = "Ok" => seen = <<"exchange", "poll", "store", "load">>
           /\ primRes = "timeout" => seen = <<"exchange", "poll">>
           /\ primRes = "fault" => seen = <<"exchange">>
           /\ (InCall /\ pc = "ex_store") => Dxp

C15_Witness ==
    /\ op = "transfer" /\ primRes = "Ok"
    /\ seen = <<"exchange", "poll", "store", "load">>

\* C16: for every length, also below FIFO_WORDS, write and transfer index the
\* buffer within 0..len-1 only: no call panics, every send and exchange takes
\* its word from a valid position, transfer writes valid positions only, and
\* a transfer that returns Ok has written each position 0..len-1 exactly once.
C16_IndexSafe ==
    /\ ret # "panic"
    /\ (InCall /\ pc \in {"send_check", "send_store", "ex_check", "ex_store"})
            => InRange(idx)
    /\ \A k \in 1..Len(wrote) : wrote[k] \in 0..(Len(orig) - 1)
    /\ (Returned("transfer") /\ ret = "Ok")
            => wrote = [k \in 1..Len(orig) |-> k - 1]

C16_Witness ==
    /\ Returned("transfer") /\ ret = "Ok"
    /\ Len(orig) \in 1..(FIFO_WORDS - 1) /\ Len(wrote) = Len(orig)

\* C17: send classifies the status first.  With a fault flag set it returns
\* the fault and writes neither TXDR nor CSTART; otherwise it makes exactly
\* one store and then asserts CSTART, and asserting CSTART when it is already
\* set leaves every register as it was.
C17_SendPrimitive ==
    /\ [](InPrim("send")
            => /\ IsPrefix(seen, <<"send", "store", "cstart">>)
               /\ primRes = "Ok" => seen = <<"send", "store", "cstart">>
               /\ primRes = "fault" => seen = <<"send">>
               /\ primRes # "timeout")
    /\ [][(InCall /\ pc = "send_check" /\ check_errors(faults) # "none"
                /\ nPrims' # nPrims)
            => (primRes' = "fault" /\ seen' = <<"send">> /\ hw' = hw)]_vars
    /\ [][(InCall /\ pc = "send_store" /\ pc' # pc)
            => (Len(txlog') = Len(txlog) + 1 /\ pc' = "send_cstart")]_vars
    /\ [][(InCall /\ pc = "send_cstart" /\ pc' # pc)
            => (cstart' /\ txlog' = txlog /\ (cstart => hw' = hw))]_vars

C17_Witness ==
    /\ InPrim("send") /\ primRes = "Ok" /\ seen = <<"send", "store", "cstart">>
    /\ nPrims >= 2 /\ cstart

\* C18: receive classifies the status, then polls receive-not-empty, and
\* loads from RXDR exactly once if and only if it succeeds: the load is made
\* with a word in the FIFO, and a fault or a timeout ends it with no load.
C18_ReceivePrimitive ==
    /\ [](InPrim("receive")
            => /\ IsPrefix(seen, <<"receive", "poll", "load">>)
               /\ primRes = "Ok" <=> seen = <<"receive", "poll", "load">>
               /\ primRes = "timeout" => seen = <<"receive", "poll">>
               /\ primRes = "fault" => seen = <<"receive">>)
    /\ []((InCall /\ pc = "rd_load") => rxfifo # <<>>)
    /\ [][(InCall /\ pc = "rd_check" /\ nPrims' # nPrims /\ primRes' = "fault")
            => (nLoads' = nLoads /\ hw' = hw)]_vars
    /\ [][(InCall /\ pc = "rd_poll" /\ polls' # polls /\ primRes' = "timeout")
            => (nLoads' = nLoads /\ hw' = hw)]_vars
    /\ [][(InCall /\ pc = "rd_load" /\ pc' # pc)
            => (nLoads' = nLoads + 1 /\ primRes' = "Ok"
                /\ rxfifo' = Tail(rxfifo))]_vars

C18_Witness ==
    /\ InPrim("receive") /\ primRes = "timeout" /\ seen = <<"receive", "poll">>
    /\ polls = PollLimit

\* The SPI_IER / SPI_IFCR bit that belongs to an interrupt kind, as the
\* SpiInterrupt enumeration and the register map name it.
KindIerBit(k) ==
    CASE k = "NumberOfTransactionsReload" -> "tserfie"
      [] k = "ModeFault" -> "modfie"
      [] k = "Tifre" -> "tifreie"
      [] k = "CrcError" -> "crceie"
      [] k = "Overrun" -> "ovrie"
      [] k = "Underrun" -> "udrie"
      [] k = "Txtfie" -> "txtfie"
      [] k = "EotSuspTxc" -> "eotie"
      [] k = "Dxp" -> "dxpie"
      [] k = "Txp" -> "txpie"
      [] OTHER -> "rxpie"

KindIfcrBit(k) ==
    CASE k = "NumberOfTransactionsReload" -> "tserfc"
      [] k = "ModeFault" -> "modfc"
      [] k = "Tifre" -> "tifrec"
      [] k = "CrcError" -> "crcec"
      [] k = "Overrun" -> "ovrc"
      [] k = "Underrun" -> "udrc"
      [] k = "Txtfie" -> "txtfc"
      [] k = "EotSuspTxc" -> "eotc"
      [] k = "Dxp" -> "dxpc"
      [] k = "Txp" -> "txpc"
      [] OTHER -> "rxpc"

\* C19: enable_interrupt(k) and clear_interrupt(k) act on the one bit that
\* belongs to k, for each of the eleven kinds: the bit set in SPI_IER is the
\* kind's own (so two kinds never set the same bit), the flag cleared through
\* SPI_IFCR is the kind's own, and only EotSuspTxc touches the
\* end-of-transaction bit and flag.
C19_OneBitPerKind ==
    /\ [][\A k \in SpiInterrupt :
            EnableInterrupt(k)
                => /\ ier' = ier \cup {KindIerBit(k)}
                   /\ ("eotie" \in ier' \ ier => k = "EotSuspTxc")]_vars
    /\ [][\A k \in SpiInterrupt :
            ClearInterrupt(k)
                => /\ faults' = faults \ {IfcrClears(KindIfcrBit(k))}
                   /\ (eot' # eot => k = "EotSuspTxc")]_vars

\* The eight kinds with an arm of their own do act on their own bit only.
MappedKinds == SpiInterrupt \ {"Dxp", "Txp", "Rxp"}

MappedKindsOwnBit ==
    /\ \A j, k \in MappedKinds :
            j # k => (IerBit(j) # IerBit(k) /\ IfcrBit(j) # IfcrBit(k))
    /\ \A k \in MappedKinds :
            IerBit(k) = KindIerBit(k) /\ IfcrBit(k) = KindIfcrBit(k)
    /\ ier \subseteq {KindIerBit(k) : k \in MappedKinds}

\* C20: whenever write or transfer returns Ok, it has made as many stores to
\* TXDR as loads from RXDR, and as many as the buffer is long.
C20_OkMeansBalanced ==
    ((Returned("write") \/ Returned("transfer")) /\ ret = "Ok")
        => (Len(txlog) = Len(orig) /\ nLoads = Len(orig))

\* C21: when transfer returns an error at logical index i, the positions
\* 0..i-FIFO_WORDS-1 of the buffer hold the words received (the echoes, when
\* the receive FIFO was empty at the call), every later position still holds
\* the caller's word, and no position is written before its word was sent.
C21_PartialBuffer ==
    /\ [](call = "transfer"
            => /\ Len(words) = Len(orig)
               /\ wrote = [k \in 1..Len(wrote) |-> k - 1]
               /\ \A j \in 1..Len(orig) :
                    IF j <= Len(wrote)
                    THEN /\ j <= Len(txlog) /\ txlog[j] = orig[j]
                         /\ rx0 = 0 => words[j] = Echo(orig[j])
                    ELSE words[j] = orig[j])
    /\ []((Returned("transfer") /\ ret # "Ok")
            => /\ idx \in FIFO_WORDS..(Len(orig) + FIFO_WORDS - 1)
               /\ Len(wrote) = idx - FIFO_WORDS)
    /\ [][(op = "transfer" /\ nLoads' = nLoads + 1)
            => words' = [words EXCEPT ![idx - FIFO_WORDS + 1] = RxHead]]_vars

C21_Witness ==
    /\ Returned("transfer") /\ ret = "Hardware" /\ rx0 = 0
    /\ Len(wrote) >= 1 /\ Len(wrote) < Len(orig)
    /\ orig = Marked(MaxLen, 1)

\* What each low-power function does up to and after its WFI, in order.
LpSequence(f) ==
    CASE f \in SleepFns -> <<"clear_sleepdeep", "sleeponexit", "wfi", "wake">>
      [] f = "stop" -> <<"set_sleepdeep", "lpms", "wfi", "wake", "reselect">>
      [] OTHER -> <<"set_sleepdeep", "lpms", "scr", "wfi", "wake", "reselect">>

\* The mode a low-power function is meant to enter.
LpTarget(f, mode) ==
    CASE f \in SleepFns -> "sleep"
      [] f = "stop" -> <<"stop0", "stop1", "stop2">>[mode + 1]
      [] f = "standby" -> "standby"
      [] OTHER -> "shutdown"

\* C22: each low-power function programs its mode before WFI and re-selects
\* the clock only after WFI has returned: sleep_now and sleep_on_exit execute
\* WFI with SLEEPDEEP clear; stop, standby and shutdown with SLEEPDEEP set
\* and LPMS = the requested stop mode (0..2), 3 and 4, so that each enters
\* its own mode; the clock input is written only after the wake-up.
C22_LowPowerOrder ==
    /\ [](lpop \in LpFns
            => /\ IsPrefix(lplog, LpSequence(lpop))
               /\ lppc = "done" => lplog = LpSequence(lpop))
    /\ []((lpop \in LpFns /\ lppc \in {"wfi", "asleep"})
            => /\ sleepdeep = (lpop \notin SleepFns)
               /\ lpop = "stop" => (lpms = lparg /\ lpms \in 0..2)
               /\ lpop = "standby" => lpms = 3
               /\ lpop = "shutdown" => lpms = 4)
    /\ []((lpop \in LpFns /\ entered # "none") => entered = LpTarget(lpop, lparg))
    /\ [][clk' # clk
            => \/ lppc = "asleep" /\ entered \in {"stop0", "stop1", "stop2"}
               \/ lppc = "reselect" /\ lplog[Len(lplog)] = "wake"
               \/ lpop' = "none"]_vars
    /\ []((lpop \in LpFns \ SleepFns /\ lppc = "done") => clk = lpsrc)

C22_Witness ==
    /\ lpop = "stop" /\ lparg = 2 /\ lppc = "done" /\ entered = "stop2"
    /\ lpsrc = "Pll" /\ clk = "Pll"
    /\ lplog = <<"set_sleepdeep", "lpms", "wfi", "wake", "reselect">>

\* C23: reclock writes the baud-rate field only while SPE is clear and
\* returns, always, with SPE set and the requested rate in the field, whether
\* or not SPE was set at the call; clearing SPE is its first register access,
\* made whatever TXC and the receive FIFO hold: it reads no status flag and
\* loads no word.
C23_ReclockSequence ==
    /\ [][(op = "reclock" /\ (mbr' # mbr \/ (pc = "rc_mbr" /\ pc' # pc)))
            => (~spe /\ ~spe' /\ mbr' = orig[1])]_vars
    /\ [][(op = "reclock" /\ seen = <<>> /\ seen' # seen)
            => (~spe' /\ seen' = <<"spe_clear">> /\ txc' = txc /\ rxfifo' = rxfifo)]_vars
    /\ [](call = "reclock" => nLoads = 0 /\ polls = 0 /\ Len(rxfifo) = rx0)
    /\ [](Returned("reclock")
            => spe /\ ret = "Unit" /\ mbr = orig[1]
               /\ seen = <<"spe_clear", "mbr", "spe_set">>)
    /\ (op = "reclock") ~> Returned("reclock")

C23_Witness ==
    /\ Returned("reclock") /\ spe /\ spe0
    /\ ~txc /\ rxfifo # <<>>
    /\ mbr = Div256

\* reclock on a disabled peripheral.
ReclockWhileDisabled == Returned("reclock") /\ ~spe0 /\ spe /\ mbr = Div2
====
